---- MODULE Spec2Model ----
(***************************************************************************)
(* Model of the zoneinfo data-crate builder                                *)
(* (src/data-crate-builder/src/data_crate.rs): DataCrate::new reads the    *)
(* input files and aggregates parse errors, DataCrate::run writes the      *)
(* directory tree, the index units and the zoneset units.                  *)
(*                                                                         *)
(* Strings are sequences of one-character strings, so that find, split and *)
(* replace are computed and not assumed.                                   *)
(***************************************************************************)
EXTENDS Integers, Sequences, FiniteSets, TLC

VARIABLES
    files,      \* input: sequence of [path, lines], lines a sequence of strings
    pc,         \* position of main / DataCrate::new / DataCrate::run
    fi,         \* index into input_file_paths of the file being read (1-based)
    li,         \* 1-based number of the next line of that file
    builder,    \* the TableBuilder
    errors,     \* the Vec<ParseError> of DataCrate::new
    table,      \* the Table of the DataCrate, None before builder.build()
    dirs,       \* output tree: the directories that exist (paths below base_path)
    units,      \* output tree: path -> content of every file below base_path
    ei,         \* index of the structure entry being processed
    todo,       \* write_zonesets: the names the key iterator has not yielded yet
    cur,        \* write_zonesets: the name whose unit is open
    err,        \* the io::Error a step returned, "none" until then
    pass,       \* 1 in the first run of the program, 2 in a second run
    snapshot,   \* dirs and units as the first run left them (for the second run)
    order       \* "run": the order of DataCrate::run; "swapped": write_zonesets first

vars == <<files, pc, fi, li, builder, errors, table, dirs, units, ei, todo, cur,
          err, pass, snapshot, order>>

-----------------------------------------------------------------------------
(* Bounds *)

MaxFiles == 2
MaxTotalLines == 2

-----------------------------------------------------------------------------
(* Strings as sequences of characters *)

\* The byte value of the characters used, the order str::cmp sorts by.
Ord(c) ==
    CASE c = " " -> 32 [] c = "#" -> 35 [] c = "-" -> 45 [] c = "." -> 46
      [] c = "/" -> 47 [] c = "0" -> 48 [] c = "1" -> 49 [] c = "2" -> 50
      [] c = "3" -> 51 [] c = ":" -> 58 [] c = "A" -> 65 [] c = "B" -> 66
      [] c = "L" -> 76 [] c = "R" -> 82 [] c = "U" -> 85 [] c = "X" -> 88 [] c = "Z" -> 90
      [] c = "_" -> 95 [] c = "d" -> 100 [] c = "m" -> 109 [] c = "o" -> 111
      [] c = "r" -> 114 [] c = "s" -> 115 [] OTHER -> 127

RECURSIVE StrLess(_, _)
StrLess(a, b) ==
    IF b = <<>> THEN FALSE
    ELSE IF a = <<>> THEN TRUE
    ELSE IF Ord(Head(a)) # Ord(Head(b)) THEN Ord(Head(a)) < Ord(Head(b))
    ELSE StrLess(Tail(a), Tail(b))

\* str::find(c): the 1-based index of the first c, 0 when there is none.
Find(s, c) ==
    IF \E i \in 1..Len(s) : s[i] = c
    THEN CHOOSE i \in 1..Len(s) : s[i] = c /\ \A j \in 1..(i - 1) : s[j] # c
    ELSE 0

\* str::rfind(c): the index of the last c, 0 when there is none.
RFind(s, c) ==
    IF \E i \in 1..Len(s) : s[i] = c
    THEN CHOOSE i \in 1..Len(s) : s[i] = c /\ \A j \in (i + 1)..Len(s) : s[j] # c
    ELSE 0

Contains(s, c) == Find(s, c) # 0

\* str::split(c), every piece kept (also the empty ones).
RECURSIVE Split(_, _)
Split(s, c) ==
    LET p == Find(s, c)
    IN  IF p = 0 THEN <<s>>
        ELSE <<SubSeq(s, 1, p - 1)>> \o Split(SubSeq(s, p + 1, Len(s)), c)

\* str::replace(c, with), with a string.
RECURSIVE Replace(_, _, _)
Replace(s, c, with) ==
    IF s = <<>> THEN <<>>
    ELSE (IF Head(s) = c THEN with ELSE <<Head(s)>>) \o Replace(Tail(s), c, with)

\* The elements of a finite set of strings as a sorted sequence (Vec::sort).
RECURSIVE SortStrs(_)
SortStrs(S) ==
    IF S = {} THEN <<>>
    ELSE LET m == CHOOSE x \in S : \A y \in S \ {x} : StrLess(x, y)
         IN  <<m>> \o SortStrs(S \ {m})

\* name.replace("-", "_")
sanitise_name(name) == Replace(name, "-", <<"_">>)

-----------------------------------------------------------------------------
(* The names and the lines of the input files *)

N_U     == <<"U">>
N_A_BdU == <<"A", "/", "B", "-", "U">>
N_AdB_U == <<"A", "-", "B", "/", "U">>
N_AdB   == <<"A", "-", "B">>
N_AuB   == <<"A", "_", "B">>
N_A_B_U == <<"A", "/", "B", "/", "U">>

ZoneLine(name, utc) == <<"Z", " ">> \o name \o <<" ", utc>>
LinkLine(target, alias) == <<"L", " ">> \o target \o <<" ">> \o alias

InputLines ==
    { ZoneLine(N_U, "1"),
      ZoneLine(N_A_BdU, "2"),
      ZoneLine(N_AdB_U, "1"),
      ZoneLine(N_AdB, "2"),
      ZoneLine(N_AuB, "3"),
      LinkLine(N_U, N_A_B_U),
      <<"R">>,                      \* a rule
      <<" ", "2", " ", "1">>,       \* continuation: UTC offset 2, DST offset 1
      <<"X">>,                      \* no line of the grammar
      <<"#", "X">> }                \* a comment only

InputPath(i) == <<"d", "/">> \o (CASE i = 1 -> <<"A">> [] i = 2 -> <<"B">> [] OTHER -> <<"X">>)
                               \o (IF i > 3 THEN <<"X">> ELSE <<>>)

BoundedSeq(S, n) == UNION { [1..k -> S] : k \in 0..n }

\* The input file lists: at most MaxFiles files holding at most MaxTotalLines
\* lines between them.
InputFileLists ==
    { [i \in 1..nf |-> [path  |-> InputPath(i),
                        lines |-> SubSeq(all, (IF i = 1 THEN 0 ELSE cut[i - 1]) + 1, cut[i])]] :
        <<all, nf, cut>> \in
          { t \in UNION { {a} \X {n} \X [1..n -> 0..Len(a)] :
                          <<a, n>> \in BoundedSeq(InputLines, MaxTotalLines) \X (0..MaxFiles) } :
              /\ \A i \in 1..(t[2] - 1) : t[3][i] <= t[3][i + 1]
              /\ IF t[2] = 0 THEN t[1] = <<>> ELSE t[3][t[2]] = Len(t[1]) } }

-----------------------------------------------------------------------------
(* The line grammar and the table builder (zoneinfo_parse::line and ::table) *)

None == <<>>
Some(x) == <<x>>

IsDigit(f) == Len(f) = 1 /\ Ord(f[1]) \in 48..57
DigitVal(f) == Ord(f[1]) - 48

NoLine == [kind |-> "Error", name |-> <<>>, target |-> <<>>, utc |-> 0, dst |-> 0, abbr |-> <<>>]

\* Line::from_str: the record a line holds, Error when it is no line of the
\* grammar, Space when it is blank.
Line_from_str(s) ==
    LET f == Split(s, " ")
    IN  IF \A i \in 1..Len(s) : s[i] = " "
        THEN [NoLine EXCEPT !.kind = "Space"]
        ELSE IF Len(f) = 3 /\ f[1] = <<"Z">> /\ f[2] # <<>> /\ IsDigit(f[3])
        THEN [NoLine EXCEPT !.kind = "Zone", !.name = f[2], !.utc = DigitVal(f[3]),
                            !.abbr = <<"s">> \o f[3]]
        ELSE IF Len(f) = 3 /\ f[1] = <<"L">> /\ f[2] # <<>> /\ f[3] # <<>>
        THEN [NoLine EXCEPT !.kind = "Link", !.name = f[3], !.target = f[2]]
        ELSE IF f = << <<"R">> >>
        THEN [NoLine EXCEPT !.kind = "Rule"]
        ELSE IF Len(f) = 3 /\ f[1] = <<>> /\ IsDigit(f[2]) /\ IsDigit(f[3])
        THEN [NoLine EXCEPT !.kind = "Continuation", !.utc = DigitVal(f[2]),
                            !.dst = DigitVal(f[3]), !.abbr = <<"d">> \o f[3]]
        ELSE NoLine

ZoneInfo(l) == [utc_offset |-> l.utc, dst_offset |-> l.dst, name |-> l.abbr]

\* TableBuilder::new
TableBuilder_new == [zonesets |-> <<>>, links |-> <<>>, current |-> None]

Accepted(b) == [ok |-> TRUE, b |-> b, error |-> "none"]
Rejected(b, e) == [ok |-> FALSE, b |-> b, error |-> e]

add_zone_line(b, l) ==
    IF l.name \in (DOMAIN b.zonesets) \cup (DOMAIN b.links)
    THEN Rejected(b, "duplicate zone")
    ELSE Accepted([b EXCEPT !.zonesets = (l.name :> <<ZoneInfo(l)>>) @@ @,
                            !.current = Some(l.name)])

add_continuation_line(b, l) ==
    IF b.current = None
    THEN Rejected(b, "continuation line follows no zone line")
    ELSE Accepted([b EXCEPT !.zonesets[b.current[1]] = Append(@, ZoneInfo(l))])

add_link_line(b, l) ==
    IF l.name \in (DOMAIN b.zonesets) \cup (DOMAIN b.links)
    THEN Rejected(b, "duplicate link")
    ELSE Accepted([b EXCEPT !.links = (l.name :> l.target) @@ @, !.current = None])

\* A rule line ends the zone that continuation lines would extend.
add_rule_line(b, l) == Accepted([b EXCEPT !.current = None])

\* TableBuilder::build
build(b) == [zonesets |-> b.zonesets, links |-> b.links]

-----------------------------------------------------------------------------
(* The Table as the writer reads it (zoneinfo_parse::structure, ::transitions) *)

\* self.table.zonesets.keys().chain(self.table.links.keys()), as a set: the
\* order in which the two maps yield their keys is not fixed.
Keys(t) == (DOMAIN t.zonesets) \cup (DOMAIN t.links)

RECURSIVE Join(_, _)
Join(segs, c) ==
    IF Len(segs) = 0 THEN <<>>
    ELSE IF Len(segs) = 1 THEN segs[1]
    ELSE segs[1] \o <<c>> \o Join(Tail(segs), c)

\* The children of the namespace `parent`: TimeZone(x) for every name
\* parent/x, Submodule(x) for every name parent/x/... .
ChildrenOf(t, parent) ==
    LET P  == Split(parent, "/")
        under(n) == LET S == Split(n, "/")
                    IN Len(S) > Len(P) /\ SubSeq(S, 1, Len(P)) = P
        tz == { Split(n, "/")[Len(P) + 1] : n \in { k \in Keys(t) : under(k) /\ Len(Split(k, "/")) = Len(P) + 1 } }
        sm == { Split(n, "/")[Len(P) + 1] : n \in { k \in Keys(t) : under(k) /\ Len(Split(k, "/")) > Len(P) + 1 } }
        tzs == SortStrs(tz)
        sms == SortStrs(sm)
    IN  [i \in 1..Len(tzs) |-> [tag |-> "TimeZone", name |-> tzs[i]]]
        \o [i \in 1..Len(sms) |-> [tag |-> "Submodule", name |-> sms[i]]]

\* Table::structure(): one entry per namespace, a namespace before the
\* namespaces nested in it.
structure(t) ==
    LET parents == UNION { { Join(SubSeq(Split(n, "/"), 1, j), "/") : j \in 1..(Len(Split(n, "/")) - 1) } :
                           n \in Keys(t) }
        names == SortStrs(parents)
    IN  [i \in 1..Len(names) |-> [name |-> names[i], children |-> ChildrenOf(t, names[i])]]

\* The instant of the k-th transition of a zone.
InstantOf(k) == 10 * k

\* Table::timespans(name): the history of a zone, or of the zone an alias
\* links to; None for a name that resolves to no zone.
timespans(t, name) ==
    LET zone == IF name \in DOMAIN t.zonesets THEN Some(name)
                ELSE IF name \in DOMAIN t.links /\ t.links[name] \in DOMAIN t.zonesets
                THEN Some(t.links[name])
                ELSE None
    IN  IF zone = None THEN None
        ELSE LET infos == t.zonesets[zone[1]]
             IN  Some([first |-> infos[1],
                       rest  |-> [k \in 1..(Len(infos) - 1) |-> <<InstantOf(k), infos[k + 1]>>]])

\* Timespan::total_offset
total_offset(ts) == ts.utc_offset + ts.dst_offset

-----------------------------------------------------------------------------
(* The output tree: paths are sequences of components below base_path *)

MOD_RS == <<"m", "o", "d", ".", "r", "s">>
RS == <<"r", "s">>

Parent(p) == SubSeq(p, 1, Len(p) - 1)

\* PathBuf::with_extension: the part of the last component after its last
\* '.' (a leading '.' apart) is replaced by the extension.
with_extension(p, ext) ==
    LET last == p[Len(p)]
        dot  == RFind(last, ".")
        stem == IF dot > 1 THEN SubSeq(last, 1, dot - 1) ELSE last
    IN  [p EXCEPT ![Len(p)] = stem \o <<".">> \o ext]

\* self.base_path.join("mod.rs")
base_mod_path == <<MOD_RS>>

\* entry.name.split('/').collect(), joined to base_path
EntryDir(entry_name) == Split(entry_name, "/")

\* name.split('/').map(sanitise_name).collect(), joined to base_path, .rs
ZonesetPath(name) ==
    LET S == Split(name, "/")
    IN  with_extension([i \in 1..Len(S) |-> sanitise_name(S[i])], RS)

\* create_dir succeeds where the parent exists and nothing has the path.
CanCreateDir(d, u, p) == Parent(p) \in d /\ p \notin d /\ p \notin DOMAIN u

CanOpen_without_directory(d, p) == p \notin d

\* OpenOptions write+create+truncate succeeds where the parent directory
\* exists and the path is no directory.
CanOpen(d, p) == Parent(p) \in d /\ p \notin d

Truncated(u, p) == (p :> <<>>) @@ u

Written(u, p, lines) == [u EXCEPT ![p] = @ \o lines]

-----------------------------------------------------------------------------
(* What the writer prints *)

IxLine(k, id, val) == [k |-> k, id |-> id, val |-> val]

\* writeln!(base_w, WARNING_HEADER); writeln!(base_w, MOD_HEADER)
BaseHeaderLines == << IxLine("WARNING_HEADER", <<>>, <<>>), IxLine("MOD_HEADER", <<>>, <<>>) >>

\* writeln!(base_w, "pub mod {};", entry.name)
EntryDeclLines(entry_name) == << IxLine("pub mod", entry_name, <<>>) >>

\* The lines of one child in the mod.rs of its directory
ChildLines(child) ==
    LET sanichild == sanitise_name(child.name)
    IN  IF child.tag = "TimeZone"
        THEN << IxLine("mod", sanichild, <<>>), IxLine("pub use ZONE as", sanichild, sanichild) >>
        ELSE << IxLine("pub mod", sanichild, <<>>) >>

RECURSIVE Flatten(_)
Flatten(ss) == IF ss = <<>> THEN <<>> ELSE Head(ss) \o Flatten(Tail(ss))

ChildrenLines(children) == Flatten([i \in 1..Len(children) |-> ChildLines(children[i])])

\* keys.sort()
SortedKeys(t) == SortStrs(Keys(t))

TopLevel(keys) == SelectSeq(keys, LAMBDA n : ~Contains(n, "/"))

\* The value of a name in the lookup map: "&" and the path of its item
LookupTarget(name) == <<"&">> \o Replace(sanitise_name(name), "/", <<":", ":">>)

\* phf_map.entry(name, "&path")
LookupEntry(name) == IxLine("ZONES entry", name, LookupTarget(name))

LookupEntries_top_level_only(keys) ==
    LET top == SelectSeq(keys, LAMBDA n : ~Contains(n, "/"))
    IN  [i \in 1..Len(top) |-> LookupEntry(top[i])]

\* The entries given to the lookup map, one per key
LookupEntries(keys) == [i \in 1..Len(keys) |-> LookupEntry(keys[i])]

\* Everything create_structure_directories prints to base_w after the loop
\* over the structure: the re-exports of the top-level names, the lookup map
\* and the lookup function.
KeysLines(t) ==
    LET keys == SortedKeys(t)
        top  == TopLevel(keys)
    IN  << IxLine("blank", <<>>, <<>>) >>
        \o Flatten([i \in 1..Len(top) |->
                      << IxLine("mod", sanitise_name(top[i]), <<>>),
                         IxLine("pub use ZONE as", sanitise_name(top[i]), sanitise_name(top[i])) >>])
        \o << IxLine("blank", <<>>, <<>>), IxLine("static ZONES", <<>>, <<>>) >>
        \o LookupEntries(keys)
        \o << IxLine("pub fn lookup", <<>>, <<>>) >>

\* The lines of a zoneset unit before the history is resolved
ZonesetHeadLines(name) ==
    << [k |-> "WARNING_HEADER"], [k |-> "ZONEINFO_HEADER"], [k |-> "pub static ZONE", name |-> name] >>

\* One FixedTimespan as printed: the total offset, with both offsets in a
\* comment, is_dst and the abbreviation.
FixedTimespan(ts) ==
    [offset |-> total_offset(ts), utc_comment |-> ts.utc_offset, dst_comment |-> ts.dst_offset,
     is_dst |-> ts.dst_offset # 0, name |-> ts.name]

\* first and rest as printed
ZonesetBodyLines(set) ==
    << [k |-> "fixed_timespans",
        first |-> FixedTimespan(set.first),
        rest  |-> [i \in 1..Len(set.rest) |-> <<set.rest[i][1], FixedTimespan(set.rest[i][2])>>]] >>

-----------------------------------------------------------------------------
(* DataCrate::new *)

\* The output tree before the first run: base_path exists and is empty.
EmptyTree == [dirs |-> {<<>>}, units |-> <<>>]

InitWith(fl, ord) ==
    /\ files = fl
    /\ pc = "new_files"
    /\ fi = 1
    /\ li = 1
    /\ builder = TableBuilder_new
    /\ errors = <<>>
    /\ table = None
    /\ dirs = EmptyTree.dirs
    /\ units = EmptyTree.units
    /\ ei = 1
    /\ todo = {}
    /\ cur = <<>>
    /\ err = "none"
    /\ pass = 1
    /\ snapshot = EmptyTree
    /\ order = ord

Init == \E fl \in InputFileLists : InitWith(fl, "run")

ParseError_zero_based(arg, line_number, e) == [filename |-> arg, line |-> line_number, error |-> e]

\* ParseError { filename: arg.clone(), line: line_number + 1, error }
ParseError(arg, line_number, e) == [filename |-> arg, line |-> line_number + 1, error |-> e]

\* The comment portion is cut off at the first '#'.
StripComment(line) ==
    LET pos == Find(line, "#")
    IN  IF pos # 0 THEN SubSeq(line, 1, pos - 1) ELSE line

OpenFailed_skips_file(f) == [pc |-> "new_files", fi |-> f + 1]

\* What try!(File::open(arg)) does with an error: new returns it.
OpenFailed(f) == [pc |-> "io_error", fi |-> f]

NoErrors_unchecked(errs) == TRUE

\* errors.is_empty()
NoErrors(errs) == errs = <<>>

outvars == <<dirs, units, ei, todo, cur>>
runvars == <<pass, snapshot, order>>

\* File::open(arg) succeeds.
OpenInput ==
    /\ pc = "new_files"
    /\ fi <= Len(files)
    /\ pc' = "new_lines"
    /\ li' = 1
    /\ UNCHANGED <<files, fi, builder, errors, table, err>>
    /\ UNCHANGED outvars /\ UNCHANGED runvars

\* File::open(arg) fails.
OpenInputFails ==
    /\ pc = "new_files"
    /\ fi <= Len(files)
    /\ err' = "cannot open input"
    /\ pc' = OpenFailed(fi).pc
    /\ fi' = OpenFailed(fi).fi
    /\ UNCHANGED <<files, li, builder, errors, table>>
    /\ UNCHANGED outvars /\ UNCHANGED runvars

\* One turn of the loop over reader.lines().enumerate().
ReadLine ==
    /\ pc = "new_lines"
    /\ li <= Len(files[fi].lines)
    /\ LET arg          == files[fi].path
           line_number  == li - 1
           line_portion == StripComment(files[fi].lines[li])
           parsed       == Line_from_str(line_portion)
           result       == CASE parsed.kind = "Rule"         -> add_rule_line(builder, parsed)
                             [] parsed.kind = "Link"         -> add_link_line(builder, parsed)
                             [] parsed.kind = "Zone"         -> add_zone_line(builder, parsed)
                             [] parsed.kind = "Continuation" -> add_continuation_line(builder, parsed)
                             [] OTHER                        -> Accepted(builder)
       IN  IF parsed.kind = "Error"
           THEN /\ errors' = Append(errors, ParseError(arg, line_number, "parse error"))
                /\ builder' = builder
           ELSE IF parsed.kind = "Space"
           THEN UNCHANGED <<errors, builder>>
           ELSE /\ builder' = result.b
                /\ errors' = IF result.ok THEN errors
                              ELSE Append(errors, ParseError(arg, line_number, result.error))
    /\ li' = li + 1
    /\ UNCHANGED <<files, pc, fi, table, err>>
    /\ UNCHANGED outvars /\ UNCHANGED runvars

\* line.unwrap() on a line that cannot be read
ReadLinePanics ==
    /\ pc = "new_lines"
    /\ li <= Len(files[fi].lines)
    /\ pc' = "panic"
    /\ UNCHANGED <<files, fi, li, builder, errors, table, err>>
    /\ UNCHANGED outvars /\ UNCHANGED runvars

\* reader.lines() is exhausted: the next file.
EndOfFile ==
    /\ pc = "new_lines"
    /\ li > Len(files[fi].lines)
    /\ fi' = fi + 1
    /\ pc' = "new_files"
    /\ UNCHANGED <<files, li, builder, errors, table, err>>
    /\ UNCHANGED outvars /\ UNCHANGED runvars

\* After the last file: Ok(DataCrate) with the built table and main goes on
\* to run(), or Err(errors) and main prints them and exits.
NewReturns ==
    /\ pc = "new_files"
    /\ fi > Len(files)
    /\ IF NoErrors(errors)
       THEN /\ table' = Some(build(builder))
            /\ pc' = "run"
       ELSE /\ table' = table
            /\ pc' = "compile_error"
    /\ UNCHANGED <<files, fi, li, builder, errors, err>>
    /\ UNCHANGED outvars /\ UNCHANGED runvars

-----------------------------------------------------------------------------
(* DataCrate::run: create_structure_directories and write_zonesets *)

Tried_ignored(p) == p

\* What try! does with the error of a failed step: the function returns it.
Tried(p) == "io_error"

Entries == structure(table[1])

\* Where run() goes after the function that is called first and second.
FirstCall  == IF order = "run" THEN "csd_open" ELSE "wz_next"
AfterCsd   == IF order = "run" THEN "wz_next" ELSE "done"
AfterWz    == IF order = "run" THEN "done" ELSE "csd_open"

AtEntry == pc = "csd_entry" /\ ei <= Len(Entries)
AtDecl  == AtEntry /\ ~Contains(Entries[ei].name, "/")
AtDir   == pc = "csd_dir" \/ (AtEntry /\ Contains(Entries[ei].name, "/"))
AtMod   == pc = "csd_mod" \/ (AtDir /\ EntryDir(Entries[ei].name) \in dirs)
AtKeys  == pc = "csd_entry" /\ ei > Len(Entries)

newvars == <<files, fi, li, builder, errors, table>>

\* run() is called on the DataCrate.
RunStart ==
    /\ pc = "run"
    /\ pc' = FirstCall
    /\ todo' = IF order = "run" THEN todo ELSE Keys(table[1])
    /\ ei' = 1
    /\ UNCHANGED <<dirs, units, cur, err>>
    /\ UNCHANGED newvars /\ UNCHANGED runvars

\* open_opts.open(base_mod_path)
OpenBase ==
    /\ pc = "csd_open"
    /\ CanOpen(dirs, base_mod_path)
    /\ units' = Truncated(units, base_mod_path)
    /\ pc' = "csd_hdr"
    /\ UNCHANGED <<dirs, ei, todo, cur, err>>
    /\ UNCHANGED newvars /\ UNCHANGED runvars

\* The two headers of the root index
WriteBaseHeader ==
    /\ pc = "csd_hdr"
    /\ units' = Written(units, base_mod_path, BaseHeaderLines)
    /\ pc' = "csd_entry"
    /\ ei' = 1
    /\ UNCHANGED <<dirs, todo, cur, err>>
    /\ UNCHANGED newvars /\ UNCHANGED runvars

\* if !entry.name.contains('/') { writeln!(base_w, "pub mod {};", entry.name) }
WriteEntryDecl ==
    /\ AtDecl
    /\ units' = Written(units, base_mod_path, EntryDeclLines(Entries[ei].name))
    /\ pc' = "csd_dir"
    /\ UNCHANGED <<dirs, ei, todo, cur, err>>
    /\ UNCHANGED newvars /\ UNCHANGED runvars

\* if !dir_path.is_dir() { create_dir(&dir_path) }, the directory can be made
CreateDir ==
    /\ AtDir
    /\ EntryDir(Entries[ei].name) \notin dirs
    /\ CanCreateDir(dirs, units, EntryDir(Entries[ei].name))
    /\ dirs' = dirs \cup {EntryDir(Entries[ei].name)}
    /\ pc' = "csd_mod"
    /\ UNCHANGED <<units, ei, todo, cur, err>>
    /\ UNCHANGED newvars /\ UNCHANGED runvars

\* open_opts.open(dir_path.join("mod.rs"))
OpenMod ==
    /\ AtMod
    /\ CanOpen(dirs, Append(EntryDir(Entries[ei].name), MOD_RS))
    /\ units' = Truncated(units, Append(EntryDir(Entries[ei].name), MOD_RS))
    /\ pc' = "csd_children"
    /\ UNCHANGED <<dirs, ei, todo, cur, err>>
    /\ UNCHANGED newvars /\ UNCHANGED runvars

\* The loop over entry.children, and on to the next entry
WriteChildren ==
    /\ pc = "csd_children"
    /\ units' = Written(units, Append(EntryDir(Entries[ei].name), MOD_RS),
                         ChildrenLines(Entries[ei].children))
    /\ ei' = ei + 1
    /\ pc' = "csd_entry"
    /\ UNCHANGED <<dirs, todo, cur, err>>
    /\ UNCHANGED newvars /\ UNCHANGED runvars

\* After the loop: the sorted keys, the re-exports, the lookup map and the
\* lookup function; create_structure_directories returns Ok.
WriteKeys ==
    /\ AtKeys
    /\ units' = Written(units, base_mod_path, KeysLines(table[1]))
    /\ pc' = AfterCsd
    /\ todo' = IF order = "run" THEN Keys(table[1]) ELSE todo
    /\ UNCHANGED <<dirs, ei, cur, err>>
    /\ UNCHANGED newvars /\ UNCHANGED runvars

\* The key iterator yields a name and its unit is opened.
OpenZoneset ==
    /\ pc = "wz_next"
    /\ \E name \in todo :
         /\ CanOpen(dirs, ZonesetPath(name))
         /\ units' = Truncated(units, ZonesetPath(name))
         /\ cur' = name
         /\ todo' = todo \ {name}
    /\ pc' = "wz_head"
    /\ UNCHANGED <<dirs, ei, err>>
    /\ UNCHANGED newvars /\ UNCHANGED runvars

\* The key iterator yields a name whose unit cannot be opened: its directory
\* does not exist.
OpenZonesetFails ==
    /\ pc = "wz_next"
    /\ \E name \in todo :
         /\ ~CanOpen(dirs, ZonesetPath(name))
         /\ cur' = name
         /\ todo' = todo \ {name}
    /\ err' = "cannot open unit"
    /\ pc' = Tried(pc)
    /\ UNCHANGED <<dirs, units, ei>>
    /\ UNCHANGED newvars /\ UNCHANGED runvars

\* The headers and the name of the zone
WriteZonesetHead ==
    /\ pc = "wz_head"
    /\ units' = Written(units, ZonesetPath(cur), ZonesetHeadLines(cur))
    /\ pc' = "wz_body"
    /\ UNCHANGED <<dirs, ei, todo, cur, err>>
    /\ UNCHANGED newvars /\ UNCHANGED runvars

\* self.table.timespans(name).unwrap(), then first and rest
WriteZonesetBody ==
    /\ pc = "wz_body"
    /\ LET set == timespans(table[1], cur)
       IN  IF set = None
           THEN /\ pc' = "panic"
                /\ units' = units
           ELSE /\ pc' = "wz_next"
                /\ units' = Written(units, ZonesetPath(cur), ZonesetBodyLines(set[1]))
    /\ UNCHANGED <<dirs, ei, todo, cur, err>>
    /\ UNCHANGED newvars /\ UNCHANGED runvars

\* The key iterator is exhausted: write_zonesets returns Ok.
WriteZonesetsReturns ==
    /\ pc = "wz_next"
    /\ todo = {}
    /\ pc' = AfterWz
    /\ UNCHANGED <<dirs, units, ei, todo, cur, err>>
    /\ UNCHANGED newvars /\ UNCHANGED runvars

\* The positions at which run() is about to create, open or write.
AtOutputStep ==
    \/ pc \in {"csd_open", "csd_hdr", "csd_dir", "csd_mod", "csd_children", "wz_head", "wz_body"}
    \/ pc = "csd_entry"
    \/ pc = "wz_next" /\ todo # {}

\* Any creation, open or write of run() can fail in the operating system,
\* and create_dir fails where the directory cannot be made: the step has no
\* effect and returns the error.
OutputFails ==
    /\ AtOutputStep
    /\ err' = IF AtDir /\ ~AtMod /\ ~CanCreateDir(dirs, units, EntryDir(Entries[ei].name))
              THEN "cannot create directory"
              ELSE "io failure"
    /\ pc' = Tried(pc)
    /\ UNCHANGED <<dirs, units, ei, todo, cur>>
    /\ UNCHANGED newvars /\ UNCHANGED runvars

Next ==
    \/ OpenInput \/ OpenInputFails \/ ReadLine \/ ReadLinePanics \/ EndOfFile \/ NewReturns
    \/ RunStart \/ OpenBase \/ WriteBaseHeader \/ WriteEntryDecl \/ CreateDir
    \/ OpenMod \/ WriteChildren \/ WriteKeys
    \/ OpenZoneset \/ OpenZonesetFails \/ WriteZonesetHead \/ WriteZonesetBody
    \/ WriteZonesetsReturns \/ OutputFails

Spec == Init /\ [][Next]_vars

\* The program is run again on the same inputs and the same base_path, on
\* the output tree the first run left.
Rerun ==
    /\ pc = "done"
    /\ pass = 1
    /\ pass' = 2
    /\ snapshot' = [dirs |-> dirs, units |-> units]
    /\ pc' = "new_files"
    /\ fi' = 1
    /\ li' = 1
    /\ builder' = TableBuilder_new
    /\ errors' = <<>>
    /\ table' = None
    /\ ei' = 1
    /\ todo' = {}
    /\ cur' = <<>>
    /\ UNCHANGED <<files, dirs, units, err, order>>

NextTwice == Next \/ Rerun

SpecTwice == Init /\ [][NextTwice]_vars

\* The two functions of run() called in either order.
InitAnyOrder == \E fl \in InputFileLists : \E ord \in {"run", "swapped"} : InitWith(fl, ord)

SpecAnyOrder == InitAnyOrder /\ [][Next]_vars

-----------------------------------------------------------------------------
(* The error list of DataCrate::new *)

\* The lines of the input in the order they are read: <<file, line>>.
Positions ==
    Flatten([f \in 1..Len(files) |-> [l \in 1..Len(files[f].lines) |-> <<f, l>>]])

\* What the table builder answers when the line is submitted to it.
Submitted(b, line) ==
    LET parsed == Line_from_str(StripComment(line))
    IN  CASE parsed.kind = "Error"        -> Rejected(b, "parse error")
          [] parsed.kind = "Zone"         -> add_zone_line(b, parsed)
          [] parsed.kind = "Link"         -> add_link_line(b, parsed)
          [] parsed.kind = "Continuation" -> add_continuation_line(b, parsed)
          [] parsed.kind = "Rule"         -> add_rule_line(b, parsed)
          [] OTHER                        -> Accepted(b)

LineAt(pos) == files[pos[1]].lines[pos[2]]

\* The builder after the first k lines of the input.
RECURSIVE BuilderAfter(_)
BuilderAfter(k) ==
    IF k = 0 THEN TableBuilder_new
    ELSE Submitted(BuilderAfter(k - 1), LineAt(Positions[k])).b

\* The k-th line of the input fails grammar parsing or is rejected.
FailsAt(k) == ~Submitted(BuilderAfter(k - 1), LineAt(Positions[k])).ok

FailingPositions == SelectSeq([k \in 1..Len(Positions) |-> k], FailsAt)

\* DataCrate::new has just returned Err(errors) or Ok(DataCrate).
NewReturned == pc \in {"compile_error", "run"}

\* C1: when DataCrate::new has read every file, its error list holds exactly
\* one entry for every line of the input that fails grammar parsing or is
\* rejected by the table builder, with the path of the line's file and its
\* 1-based line number, in file order and then line order.
C1_ErrorsAreTheFailingLines ==
    NewReturned =>
        /\ Len(errors) = Len(FailingPositions)
        /\ \A i \in 1..Len(errors) :
              /\ errors[i].filename = files[Positions[FailingPositions[i]][1]].path
              /\ errors[i].line = Positions[FailingPositions[i]][2]

\* Errors of two files were aggregated, the first of them a rejection by the
\* table builder.
C1_Witness ==
    /\ pc = "compile_error"
    /\ Len(errors) = 2
    /\ errors[1].filename # errors[2].filename
    /\ errors[1].error # "parse error"

\* C2: a Table is produced exactly when DataCrate::new returns with no parse
\* failure aggregated over the whole input; with a parse failure recorded,
\* build() is never called, no directory is created and no unit is opened
\* or written.
C2_TableIffNoParseFailure ==
    /\ errors # <<>> =>
          /\ table = None
          /\ dirs = EmptyTree.dirs
          /\ units = EmptyTree.units
          /\ pc \in {"new_files", "new_lines", "compile_error", "io_error", "panic"}
    /\ table # None => errors = <<>>
    /\ pc = "run" => table # None /\ FailingPositions = <<>>
    /\ pc = "compile_error" => errors # <<>> /\ table = None

\* A zone was accepted, a later line failed, and new returned the errors.
C2_Witness ==
    /\ pc = "compile_error"
    /\ errors # <<>>
    /\ builder.zonesets # <<>>

\* C8: when an input file cannot be opened, new returns the I/O error at that
\* file: no later file is read, the parse failures aggregated so far come
\* from the files before it and are not the outcome, no Table is built and
\* nothing is written.
C8_UnopenableInputIsFatal ==
    err = "cannot open input" =>
        /\ pc = "io_error"
        /\ fi \in 1..Len(files)
        /\ \A i \in 1..Len(errors) : \E f \in 1..(fi - 1) : errors[i].filename = files[f].path
        /\ table = None
        /\ dirs = EmptyTree.dirs
        /\ units = EmptyTree.units

\* The second file could not be opened after a parse failure in the first.
C8_Witness ==
    /\ err = "cannot open input"
    /\ fi = 2
    /\ errors # <<>>

-----------------------------------------------------------------------------
(* The generated lookup *)

\* ZONES.get(input).cloned() on the map printed in the root index.
lookup(index, input) ==
    LET hits == SelectSeq(index, LAMBDA l : l.k = "ZONES entry" /\ l.id = input)
    IN  IF hits = <<>> THEN None ELSE Some(hits[1].val)

\* The root index has been written to its last line.
IndexComplete ==
    /\ table # None
    /\ base_mod_path \in DOMAIN units
    /\ units[base_mod_path] # <<>>
    /\ units[base_mod_path][Len(units[base_mod_path])].k = "pub fn lookup"

\* Strings the lookup is asked for: every name of the inputs, the sanitised
\* names, the namespaces and the last components.
Probes ==
    LET names == {N_U, N_A_BdU, N_AdB_U, N_AdB, N_AuB, N_A_B_U}
    IN  names \cup {sanitise_name(n) : n \in names}
              \cup UNION { {Join(SubSeq(Split(n, "/"), 1, j), "/") : j \in 1..Len(Split(n, "/"))} : n \in names }
              \cup {Split(n, "/")[Len(Split(n, "/"))] : n \in names}
              \cup {<<>>}

\* C5: the keys of the generated lookup map are exactly the zone names and
\* the alias names, in full; lookup answers None for every other string.
C5_LookupKeysAreTheNames ==
    IndexComplete =>
        LET index == units[base_mod_path]
            keyset == {index[i].id : i \in {j \in 1..Len(index) : index[j].k = "ZONES entry"}}
        IN  /\ keyset = (DOMAIN table[1].zonesets) \cup (DOMAIN table[1].links)
            /\ \A s \in Probes :
                  IF s \in (DOMAIN table[1].zonesets) \cup (DOMAIN table[1].links)
                  THEN lookup(index, s) # None
                  ELSE lookup(index, s) = None

\* The index of a table with a zone and a nested alias is complete.
C5_Witness ==
    /\ IndexComplete
    /\ DOMAIN table[1].zonesets # {}
    /\ \E n \in DOMAIN table[1].links : Contains(n, "/")

-----------------------------------------------------------------------------
(* Failures of run() *)

\* C9: the first I/O failure ends the run: the error is what run() returns,
\* the failing step and everything after it leave the directories and the
\* units as they were, so the units written before stay as written.
C9_FirstIoFailureAborts ==
    /\ [](err # "none" => pc = "io_error")
    /\ [][err' # "none" => dirs' = dirs /\ units' = units]_vars

\* run() failed with units written and names not yet written.
C9_Witness ==
    /\ err = "io failure"
    /\ pc = "io_error"
    /\ todo # {}
    /\ \E p \in DOMAIN units : p # base_mod_path /\ units[p] # <<>>

-----------------------------------------------------------------------------
(* The units run() leaves *)

\* run() has ended: with Ok, with an I/O error, or in a panic.
RunEnded == table # None /\ pc \in {"done", "io_error", "panic"}

\* The operating system failed a step (no fault of the tree or the table).
EnvFault == err = "io failure"

\* Every alias links to a zone of the table.
AliasesResolve(t) == \A a \in DOMAIN t.links : t.links[a] \in DOMAIN t.zonesets

\* The unit of a name as write_zonesets prints it.
ZonesetUnit(t, n) == ZonesetHeadLines(n) \o ZonesetBodyLines(timespans(t, n)[1])

IsIndexPath(p) == p[Len(p)] = MOD_RS

\* C3: with no failing line in the input, run() succeeds and leaves exactly
\* one zoneset unit per zone or alias name: distinct names have distinct
\* unit paths, every name has its unit and no unit is that of another name.
C3_OneUnitPerName ==
    (RunEnded /\ ~EnvFault /\ AliasesResolve(table[1])) =>
        LET names == (DOMAIN table[1].zonesets) \cup (DOMAIN table[1].links)
        IN  /\ pc = "done"
            /\ \A n, m \in names : n # m => ZonesetPath(n) # ZonesetPath(m)
            /\ {p \in DOMAIN units : ~IsIndexPath(p)} = {ZonesetPath(n) : n \in names}
            /\ \A n \in names : units[ZonesetPath(n)] = ZonesetUnit(table[1], n)

\* The path of the unit an item path of the lookup map denotes: & dropped,
\* the components between "::" as directories, the last with ".rs".
ItemUnitPath(target) ==
    LET comps == SelectSeq(Split(Tail(target), ":"), LAMBDA c : c # <<>>)
    IN  [comps EXCEPT ![Len(comps)] = @ \o <<".", "r", "s">>]

\* The printed timespan holds the data of the table's timespan.
SameTimespan(printed, ts) ==
    /\ printed.offset = ts.utc_offset + ts.dst_offset
    /\ printed.is_dst = (ts.dst_offset # 0)
    /\ printed.name = ts.name

\* The unit is the one written for n and embeds transition_history(n).
EmbedsHistory(u, n) ==
    LET hist == timespans(table[1], n)[1]
    IN  /\ Len(u) = 4
        /\ u[3].name = n
        /\ SameTimespan(u[4].first, hist.first)
        /\ Len(u[4].rest) = Len(hist.rest)
        /\ \A i \in 1..Len(hist.rest) :
              /\ u[4].rest[i][1] = hist.rest[i][1]
              /\ SameTimespan(u[4].rest[i][2], hist.rest[i][2])

\* The lookup resolves n to the item path of n, whose unit embeds the
\* history of n.
RoundTrip(n) ==
    LET target == <<"&">> \o Replace(Replace(n, "-", <<"_">>), "/", <<":", ":">>)
    IN  /\ lookup(units[base_mod_path], n) = Some(target)
        /\ ItemUnitPath(target) \in DOMAIN units
        /\ EmbedsHistory(units[ItemUnitPath(target)], n)

\* C4: for every name of the finalized Table the lookup map resolves the
\* name to its item path, and the unit at that path is the one written for
\* the name and embeds its transition history.
C4_RoundTripEveryName ==
    (RunEnded /\ ~EnvFault /\ AliasesResolve(table[1])) =>
        \A n \in Keys(table[1]) : RoundTrip(n)

\* No other name has the same sanitised form.
SanitisedFormIsUnique(n) ==
    \A m \in Keys(table[1]) \ {n} : Replace(m, "-", <<"_">>) # Replace(n, "-", <<"_">>)

\* Where run() returns Ok the round trip holds for every name whose
\* sanitised form no other name shares.
RoundTripWhereRunSucceeds ==
    pc = "done" => \A n \in Keys(table[1]) : SanitisedFormIsUnique(n) => RoundTrip(n)

\* C6: every identifier printed into an index unit is its source name with
\* every '-' replaced by '_' and nothing else changed: none holds a '-',
\* and the root index exports the sanitised name of every top-level
\* namespace.
C6_IdentifiersAreSanitised ==
    /\ \A p \in DOMAIN units : IsIndexPath(p) =>
          \A i \in 1..Len(units[p]) :
             /\ units[p][i].k \in {"pub mod", "mod", "pub use ZONE as"} => ~Contains(units[p][i].id, "-")
             /\ ~Contains(units[p][i].val, "-")
    /\ IndexComplete =>
          {units[base_mod_path][i].id : i \in {j \in 1..Len(units[base_mod_path]) : units[base_mod_path][j].k = "pub mod"}}
            = {Replace(Entries[i].name, "-", <<"_">>) : i \in {j \in 1..Len(Entries) : ~Contains(Entries[j].name, "/")}}

\* C7: run twice on unchanged inputs, the program succeeds both times and
\* the second run leaves every directory and unit as the first left it.
C7_SecondRunLeavesTheSameUnits ==
    /\ (RunEnded /\ ~EnvFault /\ AliasesResolve(table[1])) => pc = "done"
    /\ (pass = 2 /\ pc = "done") => [dirs |-> dirs, units |-> units] = snapshot

-----------------------------------------------------------------------------
(* The order of the two functions of run() *)

\* No namespace component of a name holds a '-' and every alias resolves.
WellFormed(t) ==
    /\ AliasesResolve(t)
    /\ \A n \in Keys(t) : \A j \in 1..(Len(Split(n, "/")) - 1) : ~Contains(Split(n, "/")[j], "-")

NoNestedName(t) == \A n \in Keys(t) : ~Contains(n, "/")

\* The tree a completed run() leaves for the table: a directory and an
\* index per namespace, the root index, and a unit per unit path, written
\* for one of the names that have the path.
TreeOf(t) ==
    LET E == structure(t)
        top == SelectSeq(E, LAMBDA e : ~Contains(e.name, "/"))
    IN  /\ dirs = {<<>>} \cup {EntryDir(E[i].name) : i \in 1..Len(E)}
        /\ DOMAIN units = {base_mod_path}
                             \cup {Append(EntryDir(E[i].name), MOD_RS) : i \in 1..Len(E)}
                             \cup {ZonesetPath(n) : n \in Keys(t)}
        /\ units[base_mod_path] =
              BaseHeaderLines \o Flatten([i \in 1..Len(top) |-> EntryDeclLines(top[i].name)]) \o KeysLines(t)
        /\ \A i \in 1..Len(E) :
              units[Append(EntryDir(E[i].name), MOD_RS)] = ChildrenLines(E[i].children)
        /\ \A n \in Keys(t) :
              \E m \in Keys(t) : ZonesetPath(m) = ZonesetPath(n) /\ units[ZonesetPath(n)] = ZonesetUnit(t, m)

\* C10 as stated: from an empty tree the two functions complete in either
\* order and leave the same units.
C10_AnyOrderCompletes ==
    (RunEnded /\ ~EnvFault /\ WellFormed(table[1])) => pc = "done" /\ TreeOf(table[1])

\* C10 amended: when no name is nested the two functions complete in either
\* order and leave the tree of the table; when a name is nested,
\* write_zonesets run first fails opening the unit of a nested name.
C10_ZonesetsNeedTheDirectories ==
    (RunEnded /\ ~EnvFault /\ AliasesResolve(table[1])) =>
        IF NoNestedName(table[1])
        THEN pc = "done" /\ TreeOf(table[1])
        ELSE order = "swapped" => pc = "io_error" /\ err = "cannot open unit"

\* write_zonesets ran first, on two names, and the run completed.
C10_Witness ==
    /\ order = "swapped"
    /\ pc = "done"
    /\ Cardinality(Keys(table[1])) = 2

-----------------------------------------------------------------------------
(* The directory of a nested name's unit *)

\* The structure entry that is the parent of a nested name: the name
\* without its last '/'-separated component.
ParentEntry(n) ==
    LET S == Split(n, "/")
    IN  Join(SubSeq(S, 1, Len(S) - 1), "/")

\* The nested names of the table
NestedNames(t) == {n \in Keys(t) : Contains(n, "/")}

\* run() has finished create_structure_directories and write_zonesets is
\* about to open the unit of the next name.
AtZonesetOpen == order = "run" /\ pc = "wz_next"

\* C11: in run(), for every nested name the directory write_zonesets opens
\* the unit in (segments sanitised) is the directory
\* create_structure_directories made for the parent entry (name split on
\* '/', not sanitised), so it exists when the unit is opened.
C11_UnitDirectoryWasCreated ==
    AtZonesetOpen =>
        \A n \in NestedNames(table[1]) :
            /\ Parent(ZonesetPath(n)) = EntryDir(ParentEntry(n))
            /\ Parent(ZonesetPath(n)) \in dirs

\* The directory of the unit exists for every nested name whose namespace
\* segments hold no '-'.
UnitDirectoryExistsWithoutDash ==
    AtZonesetOpen =>
        \A n \in NestedNames(table[1]) :
            ~Contains(ParentEntry(n), "-") =>
                /\ Parent(ZonesetPath(n)) = EntryDir(ParentEntry(n))
                /\ Parent(ZonesetPath(n)) \in dirs

====
